---- MODULE Spec2Model ----
(***************************************************************************)
(* cloudtag: allocation of a unique machine index in etcd.                 *)
(*                                                                         *)
(* Every machine runs findIndex(mid): it reads the slots 1, 2, ... with    *)
(* get, returns the slot that already holds its machine id, or hands off   *)
(* to allocateIndex at the first slot that reads as empty; allocateIndex   *)
(* creates the slot with put (PUT ...?prevExist=false), moving one slot up *)
(* each time etcd answers 412 Precondition Failed.                         *)
(*                                                                         *)
(* src/src/cloudtag/main.go holds two variants of the program (lines 1-358 *)
(* and lines 360-675).  They differ, for the allocation, in one place:     *)
(* on an error of get, findIndex returns (0, err) in the first variant     *)
(* (line 148) and (0, nil) in the second (line 490).                       *)
(*                                                                         *)
(* etcd is modelled by its wire contract as the code uses it: a GET is     *)
(* answered 200 with the value or 404, a PUT with prevExist=false is       *)
(* answered 201 (created), 412 (the key exists), or 307 (redirect to the   *)
(* leader); any request may also fail.  One request is one atomic step at  *)
(* the store; the machines interleave between requests.  A machine may die *)
(* at any point of a run and be started again.                             *)
(***************************************************************************)
EXTENDS Integers, FiniteSets, Sequences, TLC

(* ---- program constants and bounds of the model ---- *)

\* const maxMachineIndex = 100 (main.go:32, main.go:389): the slots are
\* 1..maxMachineIndex-1.  The model keeps the loops and scales the namespace down.
maxMachineIndex == 4

\* const maxEtcdRedirects = 10 (main.go:33, main.go:390), kept at its value.
maxEtcdRedirects == 10

\* Number of machines (pairwise distinct machine ids) whose runs are modelled step
\* by step.
MaxProcs == 2

\* Number of events of the environment in one behaviour: a stopped machine is
\* started again, a machine outside Procs creates a slot.
MaxEvents == 1

\* http.StatusOK, http.StatusCreated, http.StatusTemporaryRedirect,
\* http.StatusNotFound, http.StatusPreconditionFailed
StatusOK == 200
StatusCreated == 201
StatusTemporaryRedirect == 307
StatusNotFound == 404
StatusPreconditionFailed == 412
\* a status the code has no case for, here http.StatusInternalServerError
StatusInternalServerError == 500

\* The empty string "": what get returns for a slot that does not exist.
EmptyValue == 0

\* The two variants of the program in main.go: lines 1-358 and lines 360-675.  A
\* machine runs one of them; for findIndex they differ only in what is returned
\* when get returns an error.
Variants == {1, 2}

Procs == 1..MaxProcs
Slots == 1..(maxMachineIndex - 1)

\* machineId(): the non-empty id of machine p (ids are pairwise distinct).
mid(p) == p

\* The id of the machine outside Procs that owns slot j when no machine of Procs
\* created it.
ForeignId(j) == MaxProcs + j

VARIABLES
    solo,         \* TRUE: of Procs only machine 1 runs, and etcd may answer 307
    budget,       \* 307 answers etcd may still give (more than put follows)
    events,       \* events of the environment still allowed
    slots0,       \* number of slots of the initial store
    store,        \* etcd: a function from the existing slots to their values
    pc,           \* per machine: "idle", "scan", "claim", "done", "crashed"
    i,            \* per machine: the loop variable of findIndex / allocateIndex
    start,        \* per machine: allocateIndex's start (0 before the hand-off)
    redirects,    \* per machine: put's redirects
    index,        \* per machine: the index findIndex returned
    err,          \* per machine: the error findIndex returned ("nil": none)
    \* history of the current run, read by the properties only
    puts,         \* number of put calls (createIfAbsent) the run has begun
    sent,         \* number of PUT requests the current put call has sent
    perr,         \* a request of the run met a protocol error: it failed, its answer
                  \* was unusable or of an unclassified status, or etcd redirected
                  \* more than maxEtcdRedirects times
    owned0,       \* the slot that held mid when the run started (0: none)
    gets,         \* number of get calls (reads) the run has made
    \* main of machine 1, where a behaviour follows it (mpc is "off" where the
    \* machines are followed from their call of findIndex on)
    mpc,          \* the position of main
    variant,      \* the variant of the program the machine runs (0: either)
    id,           \* what machineId() returned to main (<<>> before it did)
    dnsZoneFlag,  \* the value of -dns-zone on the command line
    dnsZone,      \* the global dnsZone
    tagName,      \* the global tagName (-tag-name)
    delay,        \* the global delay (-delay)
    cause,        \* what made main call log.Fatal ("none": nothing did)
    tags,         \* number of CreateTags calls main has made
    upserts       \* number of UPSERT calls (ChangeResourceRecordSet) main has made

\* The variables of main.
mainv == <<mpc, variant, id, dnsZoneFlag, dnsZone, tagName, delay, cause, tags, upserts>>

vars == <<solo, budget, events, slots0, store, pc, i, start, redirects,
          index, err, puts, sent, perr, owned0, gets, mainv>>

\* The variables no step of a machine changes.
env == <<solo, slots0>>

(* ---- etcd ---- *)

\* A store whose slots 1..k exist, each owned by a different machine outside Procs.
PrefixStore(k) == [j \in 1..k |-> ForeignId(j)]

\* GET of slot n: the status etcd answers.
GetStatus(s, n) == IF n \in DOMAIN s THEN StatusOK ELSE StatusNotFound

\* PUT ...?prevExist=false of slot n: the status the leader answers.
PutStatus(s, n) == IF n \in DOMAIN s THEN StatusPreconditionFailed ELSE StatusCreated

\* The same PUT without the prevExist=false precondition: the key is set anyway.
StoreAfterPutNoPrecondition(s, n, v) ==
    [j \in DOMAIN s \cup {n} |-> IF j = n THEN v ELSE s[j]]

\* put, line 227: PUT ...?prevExist=false of slot n with value v: the store afterwards.
StoreAfterPut(s, n, v) ==
    IF n \in DOMAIN s THEN s
    ELSE [j \in DOMAIN s \cup {n} |-> IF j = n THEN v ELSE s[j]]

\* The slots of s that hold value v.
SlotsOf(s, v) == {n \in DOMAIN s : s[n] = v}

\* The lowest slot of s that holds value v, 0 when there is none.
SlotOf(s, v) ==
    IF SlotsOf(s, v) = {} THEN 0
    ELSE CHOOSE n \in SlotsOf(s, v) : \A m \in SlotsOf(s, v) : n <= m

(* ---- the Coordination Client: get and put ---- *)

\* A get that treats 404 like any other unexpected status.
getReturnNotFoundIsError(status, value) ==
    IF status # StatusOK THEN [id |-> EmptyValue, err |-> "comm"]
    ELSE [id |-> value, err |-> "nil"]

\* get, lines 201-223: what get returns for an answer with this status and this
\* node value: 404 is ("", nil), any status but 200 an error, 200 the value.
getReturn(status, value) ==
    IF status = StatusNotFound THEN [id |-> EmptyValue, err |-> "nil"]
    ELSE IF status # StatusOK THEN [id |-> EmptyValue, err |-> "comm"]
    ELSE [id |-> value, err |-> "nil"]

\* A put that takes 412 for success.
putReturnExistsIsOk(status) ==
    IF status = StatusPreconditionFailed THEN [ok |-> TRUE, err |-> "nil"]
    ELSE IF status # StatusCreated THEN [ok |-> FALSE, err |-> "comm"]
    ELSE [ok |-> TRUE, err |-> "nil"]

\* A put that takes 412 for an error.
putReturnExistsIsError(status) ==
    IF status # StatusCreated THEN [ok |-> FALSE, err |-> "comm"]
    ELSE [ok |-> TRUE, err |-> "nil"]

\* put, lines 264-270: what put returns for the final (non-redirect) answer.
putReturn(status) ==
    IF status = StatusPreconditionFailed THEN [ok |-> FALSE, err |-> "nil"]
    ELSE IF status # StatusCreated THEN [ok |-> FALSE, err |-> "comm"]
    ELSE [ok |-> TRUE, err |-> "nil"]

\* A redirect check that never gives up.
tooManyRedirectsNever(r) == FALSE

\* A redirect check that is off by one (>= for >).
tooManyRedirectsEarly(r) == r >= maxEtcdRedirects

\* put, line 235: the loop gives up before the next request.
tooManyRedirects(r) == r > maxEtcdRedirects

(* ---- the Index Allocator: findIndex and allocateIndex ---- *)

\* A scan that returns the first slot that exists, whoever owns it.
findIndexBranchReturnsTaken(maybe, m) ==
    IF maybe = EmptyValue THEN "allocate" ELSE "return"

\* A scan that does not recognise its own slot.
findIndexBranchNoRediscovery(maybe, m) ==
    IF maybe = EmptyValue THEN "allocate" ELSE "next"

\* A scan that hands off at the first slot that is not the machine's own, taken or
\* free.
findIndexBranchAllocatesTaken(maybe, m) ==
    IF maybe = m THEN "return" ELSE "allocate"

\* findIndex, lines 153-157: return i, hand off to allocateIndex, or go on.
findIndexBranch(maybe, m) ==
    IF maybe = m THEN "return"
    ELSE IF maybe = EmptyValue THEN "allocate"
    ELSE "next"

\* A findIndex that swallows the error of get in both variants.
findIndexGetErrorSwallowed(v, e) == "nil"

\* A findIndex that returns the error of get in both variants.
findIndexGetErrorReturned(v, e) == e

\* findIndex, lines 147-149 (return 0, err) and lines 489-491 (return 0, nil):
\* the error findIndex returns when get returned the error e.
findIndexGetError(v, e) == IF v = 1 THEN e ELSE "nil"

\* A loop that leaves the last slot out.
inRangeShort(n) == n < maxMachineIndex - 1

\* findIndex and allocateIndex, lines 145 and 163: the loop condition i < maxMachineIndex.
inRange(n) == n < maxMachineIndex

\* A loop end that reports no error.
busyErrorNil == "nil"

\* lines 159 and 172: the error returned when a loop ends.
busyError == "busy"

(* ---- state and steps ---- *)

\* The variants a machine may be running: the one main was started as, either one
\* where the behaviour does not say.
RunVariants == IF variant = 0 THEN Variants ELSE {variant}

running(p) == pc[p] \in {"scan", "claim"}

Init ==
    /\ solo \in BOOLEAN
    /\ budget = IF solo THEN maxEtcdRedirects + 2 ELSE 0
    /\ events = MaxEvents
    /\ slots0 \in 0..(maxMachineIndex - 1)
    /\ store = PrefixStore(slots0)
    /\ pc = [p \in Procs |-> "idle"]
    /\ i = [p \in Procs |-> 0]
    /\ start = [p \in Procs |-> 0]
    /\ redirects = [p \in Procs |-> 0]
    /\ index = [p \in Procs |-> 0]
    /\ err = [p \in Procs |-> "nil"]
    /\ puts = [p \in Procs |-> 0]
    /\ sent = [p \in Procs |-> 0]
    /\ perr = [p \in Procs |-> FALSE]
    /\ owned0 = [p \in Procs |-> 0]
    /\ gets = [p \in Procs |-> 0]
    /\ mpc = "off"
    /\ variant = 0
    /\ id = <<>>
    /\ dnsZoneFlag = <<>>
    /\ dnsZone = <<>>
    /\ tagName = <<>>
    /\ delay = 0
    /\ cause = "none"
    /\ tags = 0
    /\ upserts = 0

\* main, line 60, and findIndex, line 145: findIndex(mid) is called and its loop
\* begins with i = 1.
CallFindIndex(p) ==
    /\ pc' = [pc EXCEPT ![p] = "scan"]
    /\ i' = [i EXCEPT ![p] = 1]
    /\ start' = [start EXCEPT ![p] = 0]
    /\ redirects' = [redirects EXCEPT ![p] = 0]
    /\ index' = [index EXCEPT ![p] = 0]
    /\ err' = [err EXCEPT ![p] = "nil"]
    /\ puts' = [puts EXCEPT ![p] = 0]
    /\ sent' = [sent EXCEPT ![p] = 0]
    /\ perr' = [perr EXCEPT ![p] = FALSE]
    /\ owned0' = [owned0 EXCEPT ![p] = SlotOf(store, mid(p))]
    /\ gets' = [gets EXCEPT ![p] = 0]
    /\ UNCHANGED <<env, budget, store>>

\* main, lines 55-60: the machine starts, or is started again after its previous
\* run stopped, and calls findIndex(mid).
Start(p) ==
    /\ solo => p = 1
    /\ \/ pc[p] = "idle" /\ events' = events
       \/ pc[p] \in {"done", "crashed"} /\ events > 0 /\ events' = events - 1
    /\ CallFindIndex(p)
    /\ UNCHANGED mainv

\* findIndex / allocateIndex return (ix, e) to main; the loop locals die.
Return(p, ix, e) ==
    /\ pc' = [pc EXCEPT ![p] = "done"]
    /\ index' = [index EXCEPT ![p] = ix]
    /\ err' = [err EXCEPT ![p] = e]
    /\ i' = [i EXCEPT ![p] = 0]
    /\ redirects' = [redirects EXCEPT ![p] = 0]

\* An allocateIndex that goes back to its start after a rejected put.
NextPutBackToStart(p, n) ==
    /\ i' = [i EXCEPT ![p] = start[p]]
    /\ redirects' = [redirects EXCEPT ![p] = 0]
    /\ puts' = [puts EXCEPT ![p] = @ + 1]
    /\ sent' = [sent EXCEPT ![p] = 0]
    /\ UNCHANGED <<pc, index, err>>

\* An allocateIndex that steps over one slot after a rejected put.
NextPutSkipsOne(p, n) ==
    IF inRange(n + 2)
    THEN /\ i' = [i EXCEPT ![p] = n + 2]
         /\ redirects' = [redirects EXCEPT ![p] = 0]
         /\ puts' = [puts EXCEPT ![p] = @ + 1]
         /\ sent' = [sent EXCEPT ![p] = 0]
         /\ UNCHANGED <<pc, index, err>>
    ELSE /\ Return(p, 0, busyError)
         /\ UNCHANGED <<puts, sent>>

\* allocateIndex's loop, lines 163-172, after put returned ok = false at slot n:
\* the next put call, or the error when the loop ends.
NextPut(p, n) ==
    IF inRange(n + 1)
    THEN /\ i' = [i EXCEPT ![p] = n + 1]
         /\ redirects' = [redirects EXCEPT ![p] = 0]
         /\ puts' = [puts EXCEPT ![p] = @ + 1]
         /\ sent' = [sent EXCEPT ![p] = 0]
         /\ UNCHANGED <<pc, index, err>>
    ELSE /\ Return(p, 0, busyError)
         /\ UNCHANGED <<puts, sent>>

\* findIndex, lines 145-158: one iteration of the scan whose GET was answered 200
\* with the value of the slot, or 404.
ScanGet(p) ==
    /\ pc[p] = "scan"
    /\ LET value == IF i[p] \in DOMAIN store THEN store[i[p]] ELSE EmptyValue
           r == getReturn(GetStatus(store, i[p]), value)
           br == findIndexBranch(r.id, mid(p))
       IN  IF r.err # "nil"
           THEN /\ \E v \in RunVariants : Return(p, 0, findIndexGetError(v, r.err))
                /\ UNCHANGED <<start, puts, sent>>
           ELSE CASE br = "return" ->
                       /\ Return(p, i[p], "nil")
                       /\ UNCHANGED <<start, puts, sent>>
                  [] br = "allocate" ->
                       \* allocateIndex(mid, i): the first put call begins
                       /\ pc' = [pc EXCEPT ![p] = "claim"]
                       /\ start' = [start EXCEPT ![p] = i[p]]
                       /\ redirects' = [redirects EXCEPT ![p] = 0]
                       /\ puts' = [puts EXCEPT ![p] = @ + 1]
                       /\ sent' = [sent EXCEPT ![p] = 0]
                       /\ UNCHANGED <<i, index, err>>
                  [] OTHER ->
                       IF inRange(i[p] + 1)
                       THEN /\ i' = [i EXCEPT ![p] = @ + 1]
                            /\ UNCHANGED <<pc, start, redirects, index, err, puts, sent>>
                       ELSE /\ Return(p, 0, busyError)
                            /\ UNCHANGED <<start, puts, sent>>
    /\ gets' = [gets EXCEPT ![p] = @ + 1]
    /\ UNCHANGED <<env, budget, events, store, perr, owned0, mainv>>

\* findIndex, lines 146-149, and get, lines 194-219: the GET meets a protocol
\* error: the answer has a status the code has no case for (get returns the error
\* of line 205), or the request fails, or the body of a 200 answer cannot be read
\* or parsed (get returns the error as it is); findIndex returns in all cases.
ScanGetError(p) ==
    /\ pc[p] = "scan"
    /\ LET r == getReturn(StatusInternalServerError, EmptyValue)
       IN  \E v \in RunVariants : Return(p, 0, findIndexGetError(v, r.err))
    /\ perr' = [perr EXCEPT ![p] = TRUE]
    /\ gets' = [gets EXCEPT ![p] = @ + 1]
    /\ UNCHANGED <<env, budget, events, store, start, puts, sent, owned0, mainv>>

\* put, lines 235-237: too many redirects, before another request is made.
PutTooManyRedirects(p) ==
    /\ pc[p] = "claim"
    /\ tooManyRedirects(redirects[p])
    /\ Return(p, 0, "redirects")
    /\ perr' = [perr EXCEPT ![p] = TRUE]
    /\ UNCHANGED <<env, budget, events, store, start, puts, sent, owned0, gets, mainv>>

\* put, lines 238-259: the request reaches a follower, which answers 307 with the
\* leader's location; the store does not change.
PutRedirect(p) ==
    /\ pc[p] = "claim"
    /\ ~tooManyRedirects(redirects[p])
    /\ budget > 0
    /\ budget' = budget - 1
    /\ redirects' = [redirects EXCEPT ![p] = @ + 1]
    /\ sent' = [sent EXCEPT ![p] = @ + 1]
    /\ UNCHANGED <<env, events, store, pc, i, start, index, err, puts, perr, owned0,
                   gets, mainv>>

\* put, lines 238-270, and allocateIndex, lines 164-171: the request reaches the
\* leader, which creates the slot (201) or finds that it exists (412).
PutAnswered(p) ==
    /\ pc[p] = "claim"
    /\ ~tooManyRedirects(redirects[p])
    /\ store' = StoreAfterPut(store, i[p], mid(p))
    /\ LET r == putReturn(PutStatus(store, i[p]))
       IN  IF r.err # "nil"
           THEN /\ Return(p, 0, r.err)
                /\ sent' = [sent EXCEPT ![p] = @ + 1]
                /\ UNCHANGED puts
           ELSE IF r.ok
                THEN /\ Return(p, i[p], "nil")
                     /\ sent' = [sent EXCEPT ![p] = @ + 1]
                     /\ UNCHANGED puts
                ELSE NextPut(p, i[p])
    /\ UNCHANGED <<env, budget, events, start, perr, owned0, gets, mainv>>

\* put, lines 246-257 and 267-269, and allocateIndex, lines 165-167: the PUT meets
\* a protocol error: the answer has a status the code has no case for, the 307
\* answer has no usable Location, or the request fails, with the create applied by
\* the leader (the answer lost) or not; put and allocateIndex return the error.
PutError(p) ==
    /\ pc[p] = "claim"
    /\ ~tooManyRedirects(redirects[p])
    /\ \E applied \in BOOLEAN :
         store' = IF applied THEN StoreAfterPut(store, i[p], mid(p)) ELSE store
    /\ Return(p, 0, putReturn(StatusInternalServerError).err)
    /\ perr' = [perr EXCEPT ![p] = TRUE]
    /\ sent' = [sent EXCEPT ![p] = @ + 1]
    /\ UNCHANGED <<env, budget, events, start, puts, owned0, gets, mainv>>

\* The machine dies during findIndex: between two requests, or after the leader
\* applied its PUT and before the answer arrived.
Crash(p) ==
    /\ running(p)
    /\ \E applied \in BOOLEAN :
         /\ applied => pc[p] = "claim" /\ ~tooManyRedirects(redirects[p])
         /\ store' = IF applied THEN StoreAfterPut(store, i[p], mid(p)) ELSE store
    \* nothing of the run is left but what the store holds
    /\ pc' = [pc EXCEPT ![p] = "crashed"]
    /\ i' = [i EXCEPT ![p] = 0]
    /\ start' = [start EXCEPT ![p] = 0]
    /\ redirects' = [redirects EXCEPT ![p] = 0]
    /\ puts' = [puts EXCEPT ![p] = 0]
    /\ sent' = [sent EXCEPT ![p] = 0]
    /\ owned0' = [owned0 EXCEPT ![p] = 0]
    /\ gets' = [gets EXCEPT ![p] = 0]
    /\ UNCHANGED <<env, budget, events, index, err, perr, mainv>>

\* A machine outside Procs runs the same program and its PUT is answered 201: its
\* allocateIndex had 412 for every slot below, so the slot is the lowest one that
\* does not exist.
OtherMachineCreates ==
    /\ events > 0
    /\ events' = events - 1
    /\ \E n \in Slots :
         /\ n \notin DOMAIN store
         /\ \A m \in 1..(n - 1) : m \in DOMAIN store
         /\ store' = StoreAfterPut(store, n, ForeignId(n))
    /\ UNCHANGED <<env, budget, pc, i, start, redirects, index, err,
                   puts, sent, perr, owned0, gets, mainv>>

Next ==
    \/ OtherMachineCreates
    \/ \E p \in Procs :
        \/ Start(p)
        \/ ScanGet(p)
        \/ ScanGetError(p)
        \/ PutTooManyRedirects(p)
        \/ PutRedirect(p)
        \/ PutAnswered(p)
        \/ PutError(p)
        \/ Crash(p)

Spec == Init /\ [][Next]_vars

\* One step of findIndex of machine p: the store call it waits for returns.
Step(p) ==
    \/ ScanGet(p)
    \/ ScanGetError(p)
    \/ PutTooManyRedirects(p)
    \/ PutRedirect(p)
    \/ PutAnswered(p)
    \/ PutError(p)

\* Every store call returns: a machine that is in findIndex and does not die takes
\* its next step (http.Get and http.DefaultClient.Do block until they return).
FairSpec == Spec /\ \A p \in Procs : WF_vars(Step(p))

\* A store in which one of the slots 1..k has been written from outside with the
\* empty value (etcd stores "value=" as a key that exists).
EmptySlotStores(k) ==
    {[j \in 1..k |-> IF j = e THEN EmptyValue ELSE ForeignId(j)] : e \in 1..k}

\* The initial states of Spec, and those with one slot of the empty value.
InitEmpty ==
    /\ solo \in BOOLEAN
    /\ budget = IF solo THEN maxEtcdRedirects + 2 ELSE 0
    /\ events = MaxEvents
    /\ slots0 \in 0..(maxMachineIndex - 1)
    /\ store \in {PrefixStore(slots0)} \cup EmptySlotStores(slots0)
    /\ pc = [p \in Procs |-> "idle"]
    /\ i = [p \in Procs |-> 0]
    /\ start = [p \in Procs |-> 0]
    /\ redirects = [p \in Procs |-> 0]
    /\ index = [p \in Procs |-> 0]
    /\ err = [p \in Procs |-> "nil"]
    /\ puts = [p \in Procs |-> 0]
    /\ sent = [p \in Procs |-> 0]
    /\ perr = [p \in Procs |-> FALSE]
    /\ owned0 = [p \in Procs |-> 0]
    /\ gets = [p \in Procs |-> 0]
    /\ mpc = "off"
    /\ variant = 0
    /\ id = <<>>
    /\ dnsZoneFlag = <<>>
    /\ dnsZone = <<>>
    /\ tagName = <<>>
    /\ delay = 0
    /\ cause = "none"
    /\ tags = 0
    /\ upserts = 0

SpecEmpty == InitEmpty /\ [][Next]_vars

\* main, lines 55-60: the machine starts and calls findIndex(mid), once.
StartOnce(p) ==
    /\ pc[p] = "idle"
    /\ CallFindIndex(p)
    /\ UNCHANGED <<events, mainv>>

\* An empty store, and every machine of Procs about to run once; etcd may answer
\* 307 a few times, fewer than one put call follows.
ProgressInit ==
    /\ solo = FALSE
    /\ budget = MaxProcs
    /\ events = 0
    /\ slots0 = 0
    /\ store = PrefixStore(slots0)
    /\ pc = [p \in Procs |-> "idle"]
    /\ i = [p \in Procs |-> 0]
    /\ start = [p \in Procs |-> 0]
    /\ redirects = [p \in Procs |-> 0]
    /\ index = [p \in Procs |-> 0]
    /\ err = [p \in Procs |-> "nil"]
    /\ puts = [p \in Procs |-> 0]
    /\ sent = [p \in Procs |-> 0]
    /\ perr = [p \in Procs |-> FALSE]
    /\ owned0 = [p \in Procs |-> 0]
    /\ gets = [p \in Procs |-> 0]
    /\ mpc = "off"
    /\ variant = 0
    /\ id = <<>>
    /\ dnsZoneFlag = <<>>
    /\ dnsZone = <<>>
    /\ tagName = <<>>
    /\ delay = 0
    /\ cause = "none"
    /\ tags = 0
    /\ upserts = 0

\* One step of a machine whose requests meet no protocol error and that does not
\* die.
ProgressStep(p) ==
    \/ StartOnce(p)
    \/ ScanGet(p)
    \/ PutRedirect(p)
    \/ PutAnswered(p)

ProgressNext == \E p \in Procs : ProgressStep(p)

\* Fair scheduling: every machine that can take a step takes one.
ProgressSpec ==
    ProgressInit /\ [][ProgressNext]_vars /\ \A p \in Procs : WF_vars(ProgressStep(p))

(* ---- main ---- *)

\* The largest value of -delay that is tried.
MaxDelay == 1

\* The values of -delay that are tried.
DelayFlags == 0..MaxDelay

\* The values of -dns-zone that are tried: empty, without and with the final dot.
DnsZoneFlags == {<<>>, <<"z">>, <<"z", ".">>}

\* The values of -tag-name that are tried: empty, and the default "Name".
TagNameFlags == {<<>>, <<"N">>}

\* What /etc/machine-id may be: missing, or a file with these bytes.
MachineIdFiles ==
    {[exists |-> FALSE, bytes |-> <<>>]} \cup
    {[exists |-> TRUE, bytes |-> b] : b \in {<<>>, <<" ">>, <<"a">>, <<"a", " ">>}}

\* What the metadata service may answer: nothing (the request fails), or a body.
MetadataAnswers ==
    {[ok |-> FALSE, body |-> <<>>]} \cup
    {[ok |-> TRUE, body |-> b] : b \in {<<>>, <<" ">>, <<"v">>}}

\* strings.HasSuffix(s, c) for a suffix c of one character.
HasSuffix(s, c) == Len(s) > 0 /\ s[Len(s)] = c

\* strings.TrimSpace(s).
RECURSIVE TrimSpace(_)
TrimSpace(s) ==
    IF s = <<>> THEN s
    ELSE IF Head(s) = " " THEN TrimSpace(Tail(s))
    ELSE IF s[Len(s)] = " " THEN TrimSpace(SubSeq(s, 1, Len(s) - 1))
    ELSE s

\* A machineId that accepts an empty id.
machineIdReturnAcceptsEmpty(file) ==
    IF ~file.exists THEN [id |-> <<>>, err |-> "machineId"]
    ELSE [id |-> TrimSpace(file.bytes), err |-> "nil"]

\* machineId, lines 132-142: the trimmed content of the file, an error when the file
\* cannot be read or the trimmed content is empty.
machineIdReturn(file) ==
    IF ~file.exists THEN [id |-> <<>>, err |-> "machineId"]
    ELSE IF TrimSpace(file.bytes) = <<>> THEN [id |-> <<>>, err |-> "machineId"]
    ELSE [id |-> TrimSpace(file.bytes), err |-> "nil"]

\* metadata, lines 273-291: the trimmed body, an error when the request fails or
\* the trimmed body is empty.
metadataReturn(answer) ==
    IF ~answer.ok THEN [value |-> <<>>, err |-> "metadata"]
    ELSE IF TrimSpace(answer.body) = <<>> THEN [value |-> <<>>, err |-> "metadata"]
    ELSE [value |-> TrimSpace(answer.body), err |-> "nil"]

\* main, lines 51-53 (first variant: only a non-empty zone gets the final dot) and
\* lines 408-410 (second variant: every zone without the final dot gets it).
dnsZoneNormalised(v, zone) ==
    IF v = 1
    THEN IF zone # <<>> /\ ~HasSuffix(zone, ".") THEN zone \o <<".">> ELSE zone
    ELSE IF ~HasSuffix(zone, ".") THEN zone \o <<".">> ELSE zone

\* tag, line 308 (first variant: if delay > 0, sleep and change again); the tag of
\* the second variant, lines 635-645, applies the tag once.
tagAgain(v, d) == v = 1 /\ d > 0

\* main, lines 65-76: the metadata values in the order main reads them.
afterMetadata(stage) ==
    CASE stage = "public-ipv4" -> "instance-id"
      [] stage = "instance-id" -> "availability-zone"
      [] OTHER -> "auth"

\* main, lines 93-102 (dns, then tag) and lines 447-452 (tag, then dns).
afterAuth(v) == IF v = 1 THEN "dns" ELSE "tag"
afterDns(v) == IF v = 1 THEN "tag" ELSE "exit"
afterTag(v) == IF v = 1 THEN "exit" ELSE "dns"

\* log.Fatal(err): the process ends.
Fatal(why) ==
    /\ mpc' = "fatal"
    /\ cause' = why

\* The state after parseFlags of a behaviour that follows main of machine 1: the
\* other machines are outside (their creates are OtherMachineCreates).
MainInit ==
    /\ solo = TRUE
    /\ budget = maxEtcdRedirects + 2
    /\ events = MaxEvents
    /\ slots0 \in 0..(maxMachineIndex - 1)
    /\ store = PrefixStore(slots0)
    /\ pc = [p \in Procs |-> "idle"]
    /\ i = [p \in Procs |-> 0]
    /\ start = [p \in Procs |-> 0]
    /\ redirects = [p \in Procs |-> 0]
    /\ index = [p \in Procs |-> 0]
    /\ err = [p \in Procs |-> "nil"]
    /\ puts = [p \in Procs |-> 0]
    /\ sent = [p \in Procs |-> 0]
    /\ perr = [p \in Procs |-> FALSE]
    /\ owned0 = [p \in Procs |-> 0]
    /\ gets = [p \in Procs |-> 0]
    /\ mpc = "flags"
    /\ variant \in Variants
    /\ id = <<>>
    /\ dnsZoneFlag \in DnsZoneFlags
    /\ dnsZone = dnsZoneFlag
    /\ tagName \in TagNameFlags
    /\ delay \in DelayFlags
    /\ cause = "none"
    /\ tags = 0
    /\ upserts = 0

\* The variables of findIndex and of etcd.
allocv == <<solo, budget, events, slots0, store, pc, i, start, redirects,
            index, err, puts, sent, perr, owned0, gets>>

\* main, lines 48-53: etcd-prefix is checked and dnsZone gets its final dot.
MainFlags ==
    /\ mpc = "flags"
    /\ \E prefixOk \in BOOLEAN :
         IF prefixOk
         THEN /\ dnsZone' = dnsZoneNormalised(variant, dnsZone)
              /\ mpc' = "machineId"
              /\ UNCHANGED cause
         ELSE /\ Fatal("etcd-prefix")
              /\ UNCHANGED dnsZone
    /\ UNCHANGED <<allocv, variant, id, dnsZoneFlag, tagName, delay, tags, upserts>>

\* main, lines 55-60: machineId() is read; on an error main ends, else it calls
\* findIndex(mid).
MainMachineId ==
    /\ mpc = "machineId"
    /\ \E file \in MachineIdFiles :
         /\ IF machineIdReturn(file).err # "nil"
            THEN /\ Fatal(machineIdReturn(file).err)
                 /\ UNCHANGED allocv
            ELSE /\ mpc' = "findIndex"
                 /\ CallFindIndex(1)
                 /\ UNCHANGED <<cause, events>>
         /\ id' = machineIdReturn(file).id
    /\ UNCHANGED <<variant, dnsZoneFlag, dnsZone, tagName, delay, tags, upserts>>

\* main, lines 60-63: findIndex returned; on an error main ends.
MainFindIndexReturned ==
    /\ mpc = "findIndex"
    /\ pc[1] = "done"
    /\ IF err[1] # "nil"
       THEN Fatal("findIndex")
       ELSE /\ mpc' = "public-ipv4"
            /\ UNCHANGED cause
    /\ UNCHANGED <<allocv, variant, id, dnsZoneFlag, dnsZone, tagName, delay, tags, upserts>>

\* main, lines 65-76: one metadata value is read; on an error main ends.
MainMetadata ==
    /\ mpc \in {"public-ipv4", "instance-id", "availability-zone"}
    /\ \E answer \in MetadataAnswers :
         IF metadataReturn(answer).err # "nil"
         THEN Fatal(metadataReturn(answer).err)
         ELSE /\ mpc' = afterMetadata(mpc)
              /\ UNCHANGED cause
    /\ UNCHANGED <<allocv, variant, id, dnsZoneFlag, dnsZone, tagName, delay, tags, upserts>>

\* main, lines 89-92: the credentials are read; on an error main ends.
MainAuth ==
    /\ mpc = "auth"
    /\ \E ok \in BOOLEAN :
         IF ok
         THEN /\ mpc' = afterAuth(variant)
              /\ UNCHANGED cause
         ELSE Fatal("auth")
    /\ UNCHANGED <<allocv, variant, id, dnsZoneFlag, dnsZone, tagName, delay, tags, upserts>>

\* main, lines 93-99, and dns, lines 317-358: with a non-empty dnsZone the hosted
\* zones are listed and the A record is upserted; an error of either call ends main.
MainDns ==
    /\ mpc = "dns"
    /\ IF dnsZone # <<>>
       THEN \E listed, changed \in BOOLEAN :
              /\ upserts' = IF listed THEN upserts + 1 ELSE upserts
              /\ IF listed /\ changed
                 THEN /\ mpc' = afterDns(variant)
                      /\ UNCHANGED cause
                 ELSE Fatal("dns")
       ELSE /\ mpc' = afterDns(variant)
            /\ UNCHANGED <<cause, upserts>>
    /\ UNCHANGED <<allocv, variant, id, dnsZoneFlag, dnsZone, tagName, delay, tags>>

\* main, lines 100-102, and tag, lines 293-308: with a non-empty tagName the tag is
\* set with CreateTags; an error ends main.
MainTag ==
    /\ mpc = "tag"
    /\ IF tagName # <<>>
       THEN \E created \in BOOLEAN :
              /\ tags' = tags + 1
              /\ IF created
                 THEN /\ mpc' = IF tagAgain(variant, delay) THEN "sleep"
                                ELSE afterTag(variant)
                      /\ UNCHANGED cause
                 ELSE Fatal("tag")
       ELSE /\ mpc' = afterTag(variant)
            /\ UNCHANGED <<cause, tags>>
    /\ UNCHANGED <<allocv, variant, id, dnsZoneFlag, dnsZone, tagName, delay, upserts>>

\* tag, lines 308-314: after the delay the same tag is set again.
MainTagAgain ==
    /\ mpc = "sleep"
    /\ tags' = tags + 1
    /\ \E created \in BOOLEAN :
         IF created
         THEN /\ mpc' = afterTag(variant)
              /\ UNCHANGED cause
         ELSE Fatal("tag")
    /\ UNCHANGED <<allocv, variant, id, dnsZoneFlag, dnsZone, tagName, delay, upserts>>

MainNext ==
    \/ MainFlags
    \/ MainMachineId
    \/ MainFindIndexReturned
    \/ MainMetadata
    \/ MainAuth
    \/ MainDns
    \/ MainTag
    \/ MainTagAgain
    \/ OtherMachineCreates
    \/ \E p \in Procs :
        \/ ScanGet(p)
        \/ ScanGetError(p)
        \/ PutTooManyRedirects(p)
        \/ PutRedirect(p)
        \/ PutAnswered(p)
        \/ PutError(p)

MainSpec == MainInit /\ [][MainNext]_vars

(* ---- properties ---- *)

\* findIndex returned an index and no error.
okDone(p) == pc[p] = "done" /\ err[p] = "nil"

\* No machine other than p has created a slot since the initial state.
Undisturbed(p) == \A n \in DOMAIN store : n > slots0 => store[n] = mid(p)

\* C1 (as claimed): any two runs of machines with different ids that return an
\* index without error return different indices.
C1_Uniqueness ==
    \A p, q \in Procs :
        (p # q /\ okDone(p) /\ okDone(q)) => index[p] # index[q]

\* C2: a slot that exists keeps its value in every step: no step of any machine
\* changes or deletes it, and a create on an existing slot leaves it as it is.
C2_AppendOnly ==
    [][\A n \in DOMAIN store : n \in DOMAIN store' /\ store'[n] = store[n]]_vars

\* C2 witness: a machine's create was rejected (it is at its second put or later)
\* and the slot it was rejected at holds another machine's id.
C2_Witness ==
    \E p \in Procs :
        /\ pc[p] = "claim" /\ puts[p] >= 2
        /\ (i[p] - 1) \in DOMAIN store /\ store[i[p] - 1] # mid(p)

\* C3 (as claimed): when the store holds a slot with the machine's id at the start
\* of a run, the run makes no put call, and the index it returns is that slot.
C3_Rediscovery ==
    \A p \in Procs :
        owned0[p] > 0 =>
            /\ puts[p] = 0
            /\ okDone(p) => index[p] = owned0[p]

\* C4: no id is the value of more than one slot, whatever runs, crashes, restarts
\* and errors there were; and a run started again when the machine's slot exists,
\* and that meets no protocol error, returns that slot's index.
C4_OneSlotPerIdentity ==
    \A p \in Procs :
        /\ \A m, n \in DOMAIN store : (store[m] = mid(p) /\ store[n] = mid(p)) => m = n
        /\ (pc[p] = "done" /\ owned0[p] > 0 /\ ~perr[p]) =>
               (err[p] = "nil" /\ index[p] = owned0[p] /\ store[index[p]] = mid(p))

\* C4 witness: a machine was started again and returned the slot it had created.
C4_Witness ==
    \E p \in Procs : okDone(p) /\ owned0[p] > 0 /\ index[p] = owned0[p] /\ slots0 = 0

\* C5: with slots 1..k-1 owned by other machines and slot k free (k < N), a machine
\* that owns no slot, runs undisturbed and meets no protocol error returns k, and
\* slot k holds its id.
C5_LowestFree ==
    \A p \in Procs :
        (/\ pc[p] = "done" /\ ~perr[p] /\ owned0[p] = 0
         /\ inRange(slots0 + 1)
         /\ Undisturbed(p)) =>
            /\ err[p] = "nil"
            /\ index[p] = slots0 + 1
            /\ (slots0 + 1) \in DOMAIN store /\ store[slots0 + 1] = mid(p)

\* C5 witness: slots 1 and 2 were taken, the machine returned 3.
C5_Witness ==
    \E p \in Procs :
        okDone(p) /\ owned0[p] = 0 /\ slots0 = 2 /\ index[p] = 3 /\ Undisturbed(p)

\* Two runs that both read slot start[p] as absent and both had their create for
\* that slot answered, neither meeting a protocol error.
Raced(p, q) ==
    /\ p # q /\ start[p] > 0 /\ start[q] = start[p]
    /\ pc[p] = "done" /\ pc[q] = "done"
    /\ ~perr[p] /\ ~perr[q]

\* C6 (as claimed): of two runs that raced for slot k exactly one returns k, and the
\* other returns an index above k.
C6_RaceOriginal ==
    \A p, q \in Procs :
        Raced(p, q) =>
            \/ okDone(p) /\ index[p] = start[p] /\ okDone(q) /\ index[q] > start[p]
            \/ okDone(q) /\ index[q] = start[p] /\ okDone(p) /\ index[p] > start[p]

\* C6 (amended): of two runs that both read slot k as absent and both issue a create
\* for it, at most one returns k, and exactly one when slot k went to one of the two
\* and both completed without a protocol error; a run whose creates were rejected
\* goes on with k+1, k+2, ... and returns the first index at which its create
\* succeeds, or the capacity-exhaustion error when its creates up to N-1 were all
\* rejected.
C6_Race ==
    \A p \in Procs :
        LET k == start[p] IN
        /\ \A q \in Procs :
              /\ (p # q /\ k > 0 /\ start[q] = k) =>
                     ~(okDone(p) /\ index[p] = k /\ okDone(q) /\ index[q] = k)
              /\ (Raced(p, q) /\ store[k] \in {mid(p), mid(q)}) =>
                     (okDone(p) /\ index[p] = k) # (okDone(q) /\ index[q] = k)
        /\ (pc[p] = "done" /\ ~perr[p] /\ k > 0) =>
               \/ /\ err[p] = "nil"
                  /\ index[p] = k + puts[p] - 1
                  /\ store[index[p]] = mid(p)
                  /\ \A n \in k..(index[p] - 1) : store[n] # mid(p)
               \/ /\ err[p] = "busy" /\ index[p] = 0
                  /\ puts[p] = maxMachineIndex - k
                  /\ \A n \in k..(maxMachineIndex - 1) :
                         n \in DOMAIN store /\ store[n] # mid(p)

\* C6 witness: two runs raced for slot k, one returned k and the other k+1.
C6_Witness ==
    \E p, q \in Procs :
        /\ Raced(p, q)
        /\ okDone(p) /\ index[p] = start[p]
        /\ okDone(q) /\ index[q] = start[p] + 1 /\ puts[q] = 2

\* C7: one put call sends at most maxEtcdRedirects + 1 requests (the first and one
\* after each of at most maxEtcdRedirects redirects); while the call goes on every
\* request it sent was answered 307; and it ends with the too-many-redirects error
\* only after maxEtcdRedirects + 1 requests, never while it is within the bound.
C7_RedirectBound ==
    \A p \in Procs :
        /\ sent[p] <= maxEtcdRedirects + 1
        /\ pc[p] = "claim" => sent[p] = redirects[p]
        /\ (pc[p] = "done" /\ err[p] = "redirects") => sent[p] = maxEtcdRedirects + 1

\* C7 witness: etcd redirected maxEtcdRedirects times and then answered Created:
\* the run returned the index.
C7_Witness ==
    \E p \in Procs :
        okDone(p) /\ index[p] > 0 /\ puts[p] = 1 /\ sent[p] = maxEtcdRedirects + 1

\* C8: when every slot 1..N-1 holds the id of another machine, a run that meets no
\* protocol error returns the capacity-exhaustion error and index 0.
C8_Exhaustion ==
    \A p \in Procs :
        (/\ pc[p] = "done" /\ ~perr[p]
         /\ DOMAIN store = Slots
         /\ SlotsOf(store, mid(p)) = {}) =>
            (err[p] = "busy" /\ index[p] = 0)

\* C8 witness: one machine found every slot taken in its scan, another lost every
\* create from its start to N-1.
C8_Witness ==
    \E p, q \in Procs :
        /\ pc[p] = "done" /\ err[p] = "busy" /\ puts[p] = 0 /\ ~perr[p]
        /\ pc[q] = "done" /\ err[q] = "busy" /\ puts[q] >= 1 /\ ~perr[q]

\* C9 (as claimed): a run in which a read or a create ended in a protocol error
\* returns an error, and that error is not capacity exhaustion.
C9_ErrorPropagation ==
    \A p \in Procs :
        (pc[p] = "done" /\ perr[p]) => err[p] \in {"comm", "redirects"}

\* C10: a run in which no request met a protocol error returns no error, or the
\* capacity-exhaustion error: the 404 and 412 answers it had are not errors.
C10_ExpectedOutcomes ==
    \A p \in Procs :
        (pc[p] = "done" /\ ~perr[p]) => err[p] \in {"nil", "busy"}

\* C10 witness: a run had a 404 on its read and a 412 on its first create, and
\* returned an index.
C10_Witness ==
    \E p \in Procs : okDone(p) /\ ~perr[p] /\ puts[p] = 2 /\ index[p] = start[p] + 1

\* C11 (as claimed): when main ended because the machine id or a metadata value was
\* missing or empty, no read and no create had been issued to etcd.
C11_AbortBeforeCoordinationOriginal ==
    cause \in {"machineId", "metadata"} => gets[1] = 0 /\ puts[1] = 0

\* C11 (amended): a missing or empty machine id ends main before findIndex is
\* called, so before any read or create: findIndex runs only with a non-empty id.
\* An empty or unreadable metadata value ends main too, but after findIndex returned
\* an index without error (it has read, and maybe created, a slot), and before any
\* tagging or DNS call.
C11_AbortBeforeCoordination ==
    /\ (pc[1] # "idle" \/ gets[1] > 0 \/ puts[1] > 0) => id # <<>>
    /\ cause = "machineId" =>
          /\ mpc = "fatal" /\ pc[1] = "idle"
          /\ gets[1] = 0 /\ puts[1] = 0 /\ tags = 0 /\ upserts = 0
    /\ cause = "metadata" =>
          /\ mpc = "fatal" /\ okDone(1)
          /\ gets[1] >= 1 /\ tags = 0 /\ upserts = 0

\* C11 witness: main ended on a metadata value after findIndex had created a slot
\* for the machine.
C11_Witness ==
    /\ cause = "metadata" /\ puts[1] >= 1 /\ index[1] >= 1
    /\ index[1] \in DOMAIN store /\ store[index[1]] = mid(1)

\* C12 (as claimed): with an empty -dns-zone main makes no DNS upsert and with an
\* empty -tag-name no tagging call; a main that runs to its end has made the upsert
\* when -dns-zone is non-empty and has set the tag when -tag-name is non-empty.
C12_OptOut ==
    /\ dnsZoneFlag = <<>> => upserts = 0
    /\ tagName = <<>> => tags = 0
    /\ mpc = "exit" =>
          /\ dnsZoneFlag # <<>> => upserts = 1
          /\ tagName # <<>> => tags >= 1

\* C18 (as claimed): a main that runs to its end with tagging enabled has set the tag
\* exactly once when -delay is 0 and exactly twice when it is greater than 0; a
\* CreateTags call that fails ends main.
C18_TagReapply ==
    /\ (mpc = "exit" /\ tagName # <<>>) =>
          /\ delay = 0 => tags = 1
          /\ delay > 0 => tags = 2
    /\ cause = "tag" => mpc = "fatal"

\* C13 (as claimed): a run that returns no error returns an index i with
\* 1 <= i < maxMachineIndex, and slot i holds the machine's id.
C13_ReturnedIndexValid ==
    \A p \in Procs :
        okDone(p) =>
            /\ index[p] >= 1 /\ inRange(index[p])
            /\ index[p] \in DOMAIN store /\ store[index[p]] = mid(p)

\* C14: within one run the k-th read is of slot k (the reads are of 1, 2, ... in
\* increasing order) and no create is made while the run reads; the first create is
\* at the slot of the last read, the one that handed off, the k-th create is at
\* that slot plus k - 1, and no read follows a create; every slot read before the
\* hand-off exists with another owner and is below every slot a create is made at.
C14_OperationOrder ==
    \A p \in Procs :
        /\ pc[p] = "scan" =>
              /\ puts[p] = 0 /\ start[p] = 0
              /\ i[p] = gets[p] + 1
              /\ \A n \in 1..gets[p] : n \in DOMAIN store /\ store[n] # mid(p)
        /\ pc[p] = "claim" =>
              /\ puts[p] >= 1
              /\ gets[p] = start[p]
              /\ i[p] = start[p] + puts[p] - 1
              /\ \A n \in 1..(start[p] - 1) : n \in DOMAIN store /\ store[n] # mid(p)
              /\ \A n \in start[p]..(i[p] - 1) : n \in DOMAIN store
        /\ pc[p] = "done" =>
              /\ puts[p] = 0 => start[p] = 0
              /\ puts[p] > 0 => gets[p] = start[p]
              /\ (okDone(p) /\ puts[p] > 0) => index[p] = start[p] + puts[p] - 1
              /\ (okDone(p) /\ puts[p] = 0 /\ ~perr[p]) => index[p] = gets[p]

\* C14 witness: a run read slots 1 and 2, handed off at 2 and is at its second
\* create, which is at slot 3.
C14_Witness ==
    \E p \in Procs :
        pc[p] = "claim" /\ gets[p] = 2 /\ start[p] = 2 /\ puts[p] = 2 /\ i[p] = 3

\* C15 (as claimed): the scan hands off to allocateIndex at slot i only when slot i
\* does not exist at the read; a slot that exists, whatever its value, is compared
\* with the id and returned or skipped.
C15_HandOffOnAbsence ==
    [][\A p \in Procs :
          (pc[p] = "scan" /\ pc'[p] = "claim") => i[p] \notin DOMAIN store]_vars

\* C16: a run returns the capacity-exhaustion error only when it met no protocol
\* error and saw every slot 1..N-1 taken, by its reads up to the hand-off and by
\* its rejected creates from there on; all the slots exist then, none with the
\* machine's id.  A run that met a protocol error does not return that error.
C16_ExhaustionOnlyWhenFull ==
    \A p \in Procs :
        (pc[p] = "done" /\ err[p] = "busy") =>
            /\ ~perr[p]
            /\ index[p] = 0
            /\ DOMAIN store = Slots
            /\ \A n \in Slots : store[n] # mid(p)
            /\ puts[p] = 0 => gets[p] = maxMachineIndex - 1
            /\ puts[p] > 0 => gets[p] + puts[p] = maxMachineIndex

\* C16 witness: a run read slot 1 as taken and slot 2 as free, lost its creates at
\* 2 and at every slot above, and returned the capacity-exhaustion error.
C16_Witness ==
    \E p \in Procs :
        /\ pc[p] = "done" /\ err[p] = "busy" /\ ~perr[p]
        /\ gets[p] = 2 /\ puts[p] = maxMachineIndex - 2

\* C17: a run makes at most N-1 reads and at most N-1 put calls (N reads and puts
\* together), each put call sends at most maxEtcdRedirects + 1 requests, the reads
\* and the creates are each at increasing slots, so none is read or claimed twice;
\* and when every store call returns, a run that is going on ends.
C17_Termination ==
    /\ [](\A p \in Procs :
            /\ gets[p] <= maxMachineIndex - 1
            /\ puts[p] <= maxMachineIndex - 1
            /\ gets[p] + puts[p] <= maxMachineIndex
            /\ sent[p] <= maxEtcdRedirects + 1
            /\ pc[p] = "scan" => i[p] = gets[p] + 1
            /\ pc[p] = "claim" => i[p] = start[p] + puts[p] - 1)
    /\ \A p \in Procs : running(p) ~> ~running(p)

\* C17 witness: a run has ended after N reads and put calls together, more than
\* one of them put calls, each put call with a single request.
C17_Witness ==
    \E p \in Procs :
        /\ pc[p] = "done" /\ gets[p] + puts[p] = maxMachineIndex
        /\ puts[p] >= 2 /\ sent[p] = 0

\* C19: the slots that exist are 1..m for some m, in every state reached from a
\* store of that shape, whatever runs, crashes and protocol errors there were: no
\* slot is created while a slot below it does not exist.
C19_NoHoles ==
    \A n \in DOMAIN store : \A m \in 1..(n - 1) : m \in DOMAIN store

\* C19 witness: the store has grown by two slots, one created by a run that was
\* rejected at the slot below.
C19_Witness ==
    \E p \in Procs :
        /\ okDone(p) /\ puts[p] >= 2 /\ store[index[p]] = mid(p)
        /\ Cardinality(DOMAIN store) >= slots0 + 2

\* C20: from an empty store, with MaxProcs <= N-1 machines of different ids each
\* running findIndex once, no protocol error and fair scheduling, every run comes
\* to return an index without error, and the indices returned are 1..MaxProcs.
C20_Progress ==
    <>[](/\ \A p \in Procs : okDone(p)
         /\ {index[p] : p \in Procs} = 1..MaxProcs)

\* C20 witness: all the machines have returned, one of them after a rejected
\* create.
C20_Witness ==
    /\ \A p \in Procs : okDone(p) /\ index[p] >= 1
    /\ \E p \in Procs : puts[p] >= 2

\* The slots at or above the hand-off slot of p's run that hold another machine's
\* id.
CreatedByOthers(p) == {n \in DOMAIN store : n >= start[p] /\ store[n] # mid(p)}

\* C21: when a run's scan reads its start slot as free no slot at or above it
\* exists, so every slot at which the run's create is rejected was created after
\* that read, and by another machine; the run makes at most one put call more
\* than the slots other machines created at or above its start slot since that
\* read, and exactly one when they created none.
C21_WriteLoad ==
    /\ [](\A p \in Procs :
            start[p] > 0 =>
                /\ pc[p] = "claim" =>
                      \A n \in start[p]..(i[p] - 1) : n \in CreatedByOthers(p)
                /\ puts[p] <= 1 + Cardinality(CreatedByOthers(p))
                /\ CreatedByOthers(p) = {} => puts[p] = 1)
    /\ [][\A p \in Procs :
            (pc[p] = "scan" /\ pc'[p] = "claim") =>
                \A n \in DOMAIN store : n < i[p]]_vars

\* C21 witness: from the empty store a run made two put calls, the first rejected
\* at a slot another machine created after the run's read, and returned slot 2.
C21_Witness ==
    \E p \in Procs :
        /\ slots0 = 0 /\ okDone(p) /\ start[p] = 1 /\ puts[p] = 2 /\ index[p] = 2
        /\ CreatedByOthers(p) = {1}

TypeOK ==
    /\ DOMAIN store \subseteq Slots
    /\ \A p \in Procs : pc[p] \in {"idle", "scan", "claim", "done", "crashed"}

====
